---- MODULE Spec2Model ----
(***************************************************************************)
(* Model of the conversation workflow of Discovery Coach                   *)
(* (src/backend/discovery_workflow.py): one turn of the LangGraph state    *)
(* machine classify_intent -> build_context -> [retrieve_context] ->       *)
(* generate_response -> validate_response -> {increment_retry | END}.      *)
(*                                                                         *)
(* Representation                                                          *)
(*  - The DiscoveryState dict is the record variable `state`; every node   *)
(*    is an operator from a state record (and the answer of the external   *)
(*    call it makes) to the next state record, as `{**state, ...}` is.     *)
(*  - Text is a sequence of pieces (strings): concatenation is \o.  The    *)
(*    user message is a sequence of words; a word is the unit of the       *)
(*    substring tests.  A generated response is a sequence of segments     *)
(*    [t, n]: the text t of the segment and its length n in characters.    *)
(*  - Python None is the string None; confidences are hundredths           *)
(*    (0.7 is 70).                                                         *)
(*  - model, provider and temperature select and configure the LLM client  *)
(*    and never reach the control flow: they are left out, and client      *)
(*    construction is taken to succeed.                                    *)
(***************************************************************************)
EXTENDS Integers, Sequences, FiniteSets, TLC

VARIABLES
    state,            \* the DiscoveryState threaded through the graph
    pc,               \* the node the graph executes next, END or RAISED
    route,            \* last result of should_continue_after_validation
    trace,            \* the nodes executed so far, in order
    classifier_calls, \* classification calls made to the Generator
    retriever_calls,  \* calls made to the Retriever
    gen_calls,        \* executions of generate_response
    gen_fails,        \* executions of generate_response that failed
    gen_input,        \* what the last generate_response handed to the Generator
    classifier_answer, \* the answer of the classification call, once made
    retriever_answer, \* the answer of the last Retriever call, once made
    gen_answer        \* the answer of the last generation call, once made

vars == <<state, pc, route, trace, classifier_calls, retriever_calls,
          gen_calls, gen_fails, gen_input, classifier_answer, retriever_answer,
          gen_answer>>

None == "<None>"
END == "__end__"
RAISED == "__raised__"

----------------------------------------------------------------------------
(* Bounds of the model                                                     *)

\* longest prior-turn history a turn starts with
MaxHistory == 2

\* longest prior-turn history of a turn over the long histories
LongHistory == 13

----------------------------------------------------------------------------
(* Values of the inputs                                                    *)

ContextTypes == {"strategic-initiative", "epic", "feature", "story", "pi-objective"}

\* str.lower() on one word of the message
Lower(w) ==
    CASE w = "Draft" -> "draft"
      [] w = "SUMMARY" -> "summary"
      [] w = "Summarize" -> "summarize"
      [] w = "Review" -> "review"
      [] OTHER -> w

\* the keywords that occur as substrings of a lower-case word
KeywordsIn(w) ==
    CASE w = "drafting" -> {"draft"}
      [] w = "restructure" -> {"structure"}
      [] w \in {"draft", "create", "help me write", "evaluate", "review",
                "feedback", "outline", "structure", "summary", "summarize"} -> {w}
      [] OTHER -> {}

\* `kw in text.lower()` for a message given as a sequence of words
Contains(msg, kw) == \E i \in 1..Len(msg) : kw \in KeywordsIn(Lower(msg[i]))

----------------------------------------------------------------------------
(* prepare_initial_state                                                   *)

\* the conversion of the caller's chat history: dict entries of type human
\* or ai become messages, dict entries of any other type are dropped
RECURSIVE ConvertHistory(_)
ConvertHistory(h) ==
    IF h = <<>> THEN <<>>
    ELSE IF Head(h).type \in {"human", "ai"}
         THEN <<Head(h)>> \o ConvertHistory(Tail(h))
         ELSE ConvertHistory(Tail(h))

prepare_initial_state(message, context_type, active_epic, active_feature, active_strategic_initiative, chat_history) ==
    [ messages |-> ConvertHistory(chat_history),
      user_message |-> message,
      context_type |-> context_type,
      active_epic |-> active_epic,
      active_feature |-> active_feature,
      active_strategic_initiative |-> active_strategic_initiative,
      intent |-> "",
      confidence_score |-> 0,
      retrieval_query |-> <<>>,
      retrieved_docs |-> <<>>,
      context_text |-> <<>>,
      generated_response |-> <<>>,
      needs_clarification |-> FALSE,
      needs_retry |-> FALSE,
      validation_issues |-> <<>>,
      retry_count |-> 0,
      is_summary |-> Contains(message, "summary") \/ Contains(message, "summarize"),
      is_draft |-> Contains(message, "draft"),
      error_message |-> None ]

----------------------------------------------------------------------------
(* classify_intent                                                         *)

\* Answers of the classification call.  kind: "error" the call raises;
\* "text" the content is no JSON; "json" the content is JSON but no object
\* (result.get raises); "object" a JSON object, whose keys intent and
\* confidence may be absent.  conf_kind: "absent", "num" (conf, hundredths)
\* or "str" (a JSON string such as "high").
Answer(kind, intent, conf_kind, conf) ==
    [kind |-> kind, intent |-> intent, conf_kind |-> conf_kind, conf |-> conf]

Absent == "<absent>"

AnswerIntents == {Absent, "draft", "outline", "chat"}

AnswerConfidences ==
    { <<"absent", 0>>, <<"num", 0>>, <<"num", 100>>, <<"num", 150>>, <<"str", 0>> }

ClassifierAnswers ==
    { Answer(k, Absent, "absent", 0) : k \in {"error", "text", "json"} }
    \cup { Answer("object", i, c[1], c[2]) : i \in AnswerIntents, c \in AnswerConfidences }

\* HeuristicIntent with the evaluate keywords tested before the draft keywords
HeuristicIntent_evaluate_first(user_message) ==
    IF Contains(user_message, "evaluate") \/ Contains(user_message, "review")
       \/ Contains(user_message, "feedback") THEN "evaluate"
    ELSE IF Contains(user_message, "draft") \/ Contains(user_message, "create")
            \/ Contains(user_message, "help me write") THEN "draft"
    ELSE IF Contains(user_message, "outline") \/ Contains(user_message, "structure")
         THEN "outline"
    ELSE IF Contains(user_message, "summary") \/ Contains(user_message, "summarize")
         THEN "question"
    ELSE None

\* the lexical heuristics: the intent of the first keyword group the
\* message matches, or None when no group matches
HeuristicIntent(user_message) ==
    IF Contains(user_message, "draft") \/ Contains(user_message, "create")
       \/ Contains(user_message, "help me write") THEN "draft"
    ELSE IF Contains(user_message, "evaluate") \/ Contains(user_message, "review")
            \/ Contains(user_message, "feedback") THEN "evaluate"
    ELSE IF Contains(user_message, "outline") \/ Contains(user_message, "structure")
         THEN "outline"
    ELSE IF Contains(user_message, "summary") \/ Contains(user_message, "summarize")
         THEN "question"
    ELSE None

\* the try block of the else branch: parse the answer, or fall back
ParseClassification(a) ==
    IF a.kind = "object"
    THEN [ intent |-> IF a.intent = Absent THEN "question" ELSE a.intent,
           conf_kind |-> IF a.conf_kind = "absent" THEN "num" ELSE a.conf_kind,
           conf |-> IF a.conf_kind = "absent" THEN 70 ELSE a.conf ]
    ELSE [ intent |-> "question", conf_kind |-> "num", conf |-> 50 ]

\* Classification whose heuristic match carries the confidence 0.6
Classification_low_confidence(s, a) ==
    IF HeuristicIntent(s.user_message) # None
    THEN [ intent |-> HeuristicIntent(s.user_message), conf_kind |-> "num", conf |-> 60 ]
    ELSE ParseClassification(a)

\* intent and confidence as classify_intent_node computes them
Classification(s, a) ==
    IF HeuristicIntent(s.user_message) # None
    THEN [ intent |-> HeuristicIntent(s.user_message), conf_kind |-> "num", conf |-> 90 ]
    ELSE ParseClassification(a)

\* the print after the if/else formats the confidence with :.2f, which
\* raises for a confidence that is no number; nothing catches it there
ClassifyRaises(s, a) == Classification(s, a).conf_kind # "num"

classify_intent_node(s, a) ==
    [s EXCEPT !.intent = Classification(s, a).intent,
              !.confidence_score = Classification(s, a).conf]

----------------------------------------------------------------------------
(* build_context                                                           *)

\* truth value of an optional string: None and the empty string are false
Truthy(x) == x # None /\ x # ""

\* ContextParts that includes the active texts on a summary turn too
ContextParts_on_summary_too(s) ==
    (IF Truthy(s.active_strategic_initiative)
     THEN <<"[ACTIVE STRATEGIC INITIATIVE]\n", s.active_strategic_initiative, "\n">>
     ELSE <<>>)
    \o (IF Truthy(s.active_epic)
        THEN <<"[ACTIVE EPIC]\n", s.active_epic, "\n">> ELSE <<>>)
    \o (IF Truthy(s.active_feature)
        THEN <<"[ACTIVE FEATURE]\n", s.active_feature, "\n">> ELSE <<>>)

ContextParts(s) ==
    IF s.is_summary THEN <<>>
    ELSE (IF Truthy(s.active_strategic_initiative)
          THEN <<"[ACTIVE STRATEGIC INITIATIVE]\n", s.active_strategic_initiative, "\n">>
          ELSE <<>>)
         \o (IF Truthy(s.active_epic)
             THEN <<"[ACTIVE EPIC]\n", s.active_epic, "\n">> ELSE <<>>)
         \o (IF Truthy(s.active_feature)
             THEN <<"[ACTIVE FEATURE]\n", s.active_feature, "\n">> ELSE <<>>)

\* FullQuery that puts the user message under its label on every turn
FullQuery_always_labelled(s) == ContextParts(s) \o <<"\n[USER QUESTION]\n">> \o s.user_message

FullQuery(s) ==
    IF ContextParts(s) # <<>>
    THEN ContextParts(s) \o <<"\n[USER QUESTION]\n">> \o s.user_message
    ELSE s.user_message

RetrievalQuery(s) ==
    CASE s.context_type = "strategic-initiative" -> <<"Strategic Initiative ">> \o FullQuery(s)
      [] s.context_type = "pi-objective" -> <<"PI Objectives ">> \o FullQuery(s)
      [] OTHER -> FullQuery(s)

\* build_context_node that extends the query already on the state
build_context_node_appends(s) ==
    [s EXCEPT !.retrieval_query = s.retrieval_query \o RetrievalQuery(s)]

build_context_node(s) == [s EXCEPT !.retrieval_query = RetrievalQuery(s)]

----------------------------------------------------------------------------
(* retrieve_context                                                        *)

\* "\n\n".join(texts)
RECURSIVE JoinWith(_, _)
JoinWith(texts, sep) ==
    IF texts = <<>> THEN <<>>
    ELSE IF Len(texts) = 1 THEN <<texts[1]>>
    ELSE <<texts[1], sep>> \o JoinWith(Tail(texts), sep)

\* Answers of the Retriever: it raises, or returns a list of documents
RetrieverAnswers ==
    { [ok |-> FALSE, docs |-> <<>>],
      [ok |-> TRUE, docs |-> <<>>],
      [ok |-> TRUE, docs |-> << [page_content |-> "passage1", metadata |-> "source1"],
                                [page_content |-> "passage2", metadata |-> "source2"] >>] }

SummaryMarker == <<"Summary request - using active context only.">>
DegradedMarker == <<"Retrieval failed - proceeding with active context only.">>

\* whether the node reaches the Retriever
RetrieverInvoked(s) == ~s.is_summary

\* retrieve_context_node whose except branch forgets the context text
retrieve_context_node_no_marker(s, r) ==
    IF s.is_summary
    THEN [s EXCEPT !.context_text = SummaryMarker, !.retrieved_docs = <<>>]
    ELSE IF r.ok
    THEN [s EXCEPT
            !.retrieved_docs = [i \in 1..Len(r.docs) |->
                                  [content |-> r.docs[i].page_content,
                                   metadata |-> r.docs[i].metadata]],
            !.context_text = JoinWith([i \in 1..Len(r.docs) |-> r.docs[i].page_content],
                                      "\n\n")]
    ELSE [s EXCEPT !.retrieved_docs = <<>>]

retrieve_context_node(s, r) ==
    IF s.is_summary
    THEN [s EXCEPT !.context_text = SummaryMarker, !.retrieved_docs = <<>>]
    ELSE IF r.ok
    THEN [s EXCEPT
            !.retrieved_docs = [i \in 1..Len(r.docs) |->
                                  [content |-> r.docs[i].page_content,
                                   metadata |-> r.docs[i].metadata]],
            !.context_text = JoinWith([i \in 1..Len(r.docs) |-> r.docs[i].page_content],
                                      "\n\n")]
    ELSE [s EXCEPT !.context_text = DegradedMarker, !.retrieved_docs = <<>>]

----------------------------------------------------------------------------
(* generate_response                                                       *)

\* seq[-k:] for k > 0
Suffix(seq, k) == IF k >= Len(seq) THEN seq ELSE SubSeq(seq, Len(seq) - k + 1, Len(seq))

LlmTimeout(s) == IF s.is_draft \/ s.is_summary THEN 240 ELSE 90

\* MaxHistoryFor with the draft test ahead of the summary test
MaxHistoryFor_draft_first(s) == IF s.is_draft THEN 12 ELSE (IF s.is_summary THEN 0 ELSE 10)

MaxHistoryFor(s) == IF s.is_summary THEN 0 ELSE (IF s.is_draft THEN 12 ELSE 10)

ChatHistory(s) == IF MaxHistoryFor(s) > 0 THEN Suffix(s.messages, MaxHistoryFor(s)) ELSE <<>>

SystemPrompt(s) ==
    <<"system_prompt.txt">> \o
    (CASE s.context_type = "strategic-initiative" -> <<"strategic-initiative appendix">>
       [] s.context_type = "pi-objective" -> <<"pi-objective appendix">>
       [] OTHER -> <<>>)

\* what chain.invoke is handed, with the deadline the client was built with
GeneratorInput(s) ==
    [ system |-> SystemPrompt(s),
      context |-> s.context_text,
      chat_history |-> ChatHistory(s),
      user_input |-> s.retrieval_query,
      timeout |-> LlmTimeout(s) ]

NoInput ==
    [ system |-> <<>>, context |-> <<>>, chat_history |-> <<>>, user_input |-> <<>>,
      timeout |-> 0 ]

\* a piece of generated text and its length in characters
Seg(t) ==
    [ t |-> t,
      n |-> CASE t = "EPIC NAME" -> 9
              [] t = "EPIC HYPOTHESIS STATEMENT" -> 25
              [] t = "BUSINESS CONTEXT" -> 16
              [] t = "INITIATIVE NAME" -> 15
              [] t = "STRATEGIC CONTEXT" -> 17
              [] t = "CUSTOMER / USER SEGMENT" -> 23
              [] t = "FEATURE NAME" -> 12
              [] t = "USER STORY" -> 10
              [] t = "ACCEPTANCE CRITERIA" -> 19
              [] t = "OBJECTIVE" -> 9
              [] t = "KEY RESULTS" -> 11
              [] t = "..." -> 3
              [] t = "[To be filled]" -> 14 ]

\* n characters of plain prose, with no marker in it
Prose(n) == [t |-> "prose", n |-> n]

AllMarkers ==
    << "EPIC NAME", "EPIC HYPOTHESIS STATEMENT", "BUSINESS CONTEXT", "INITIATIVE NAME",
       "STRATEGIC CONTEXT", "CUSTOMER / USER SEGMENT", "FEATURE NAME", "USER STORY",
       "ACCEPTANCE CRITERIA", "OBJECTIVE", "KEY RESULTS" >>

\* the responses the Generator answers with in a turn
TurnResponses ==
    { <<Prose(30)>>,
      <<Prose(200)>>,
      [i \in 1..Len(AllMarkers) |-> Seg(AllMarkers[i])] \o <<Prose(200)>>,
      <<Prose(6000)>> }

\* str(e) of the failures of the Generator; an exception raised without a
\* message has the empty description
GeneratorErrors == {"Request timed out.", ""}

GeneratorAnswers ==
    { [ok |-> TRUE, content |-> r, error |-> None] : r \in TurnResponses }
    \cup { [ok |-> FALSE, content |-> <<>>, error |-> e] : e \in GeneratorErrors }

\* generate_response_node whose success branch leaves the error in place
generate_response_node_keeps_error(s, g) ==
    IF g.ok
    THEN [s EXCEPT !.generated_response = g.content]
    ELSE [s EXCEPT !.error_message = g.error, !.needs_retry = TRUE]

\* generate_response_node whose except branch drops the response text
generate_response_node_clears_response(s, g) ==
    IF g.ok
    THEN [s EXCEPT !.generated_response = g.content, !.error_message = None]
    ELSE [s EXCEPT !.error_message = g.error, !.needs_retry = TRUE,
                   !.generated_response = <<>>]

generate_response_node(s, g) ==
    IF g.ok
    THEN [s EXCEPT !.generated_response = g.content, !.error_message = None]
    ELSE [s EXCEPT !.error_message = g.error, !.needs_retry = TRUE]

----------------------------------------------------------------------------
(* validate_response                                                       *)

RECURSIVE CharLen(_)
\* len(response)
CharLen(r) == IF r = <<>> THEN 0 ELSE Head(r).n + CharLen(Tail(r))

\* `text in response`
InResponse(text, r) == \E i \in 1..Len(r) : r[i].t = text

\* `text in response[-100:]`: an occurrence that starts within the final
\* 100 characters
InTail(text, r) ==
    \E i \in 1..Len(r) :
        r[i].t = text /\ r[i].n + CharLen(SubSeq(r, i + 1, Len(r))) <= 100

RequiredSections(context_type) ==
    CASE context_type = "epic" ->
           <<"EPIC NAME", "EPIC HYPOTHESIS STATEMENT", "BUSINESS CONTEXT">>
      [] context_type = "strategic-initiative" ->
           <<"INITIATIVE NAME", "STRATEGIC CONTEXT", "CUSTOMER / USER SEGMENT">>
      [] context_type = "feature" -> <<"FEATURE NAME", "USER STORY", "ACCEPTANCE CRITERIA">>
      [] context_type = "story" -> <<"USER STORY", "ACCEPTANCE CRITERIA">>
      [] context_type = "pi-objective" -> <<"OBJECTIVE", "KEY RESULTS">>
      [] OTHER -> <<>>

RECURSIVE MissingOf(_, _)
\* [section for section in required if section not in response]
MissingOf(required, r) ==
    IF required = <<>> THEN <<>>
    ELSE (IF InResponse(Head(required), r) THEN <<>> ELSE <<Head(required)>>)
         \o MissingOf(Tail(required), r)

LengthIssues(s) ==
    IF CharLen(s.generated_response) < 50 THEN << <<"Response too short">> >>
    ELSE IF CharLen(s.generated_response) > 5000 /\ ~s.is_draft
    THEN << <<"Response very long - might be overly detailed">> >>
    ELSE <<>>

\* TemplateIssues keyed on the is_draft flag instead of the intent
TemplateIssues_by_flag(s) ==
    IF s.is_draft
       /\ MissingOf(RequiredSections(s.context_type), s.generated_response) # <<>>
    THEN << <<"Missing sections: ">>
            \o JoinWith(MissingOf(RequiredSections(s.context_type), s.generated_response),
                        ", ") >>
    ELSE <<>>

TemplateIssues(s) ==
    IF s.intent = "draft"
       /\ MissingOf(RequiredSections(s.context_type), s.generated_response) # <<>>
    THEN << <<"Missing sections: ">>
            \o JoinWith(MissingOf(RequiredSections(s.context_type), s.generated_response),
                        ", ") >>
    ELSE <<>>

IncompleteIssues(s) ==
    IF InTail("...", s.generated_response) \/ InResponse("[To be filled]", s.generated_response)
    THEN << <<"Response appears incomplete">> >>
    ELSE <<>>

Issues(s) == LengthIssues(s) \o TemplateIssues(s) \o IncompleteIssues(s)

\* NeedsRetry with a ceiling of one retry
NeedsRetry_once(s) == Len(Issues(s)) > 0 /\ s.retry_count < 1

NeedsRetry(s) == Len(Issues(s)) > 0 /\ s.retry_count < 2

\* NeedsClarification that counts a confidence of exactly 0.7 as low
NeedsClarification_at_threshold(s) == Len(Issues(s)) > 0 /\ s.confidence_score <= 70

NeedsClarification(s) == Len(Issues(s)) > 0 /\ s.confidence_score < 70

\* validate_response_node that keeps a needs-retry mark already on the state
validate_response_node_keeps_retry(s) ==
    [s EXCEPT !.validation_issues = Issues(s),
              !.needs_retry = s.needs_retry \/ (NeedsRetry(s) /\ Len(Issues(s)) > 0),
              !.needs_clarification = NeedsClarification(s)]

validate_response_node(s) ==
    [s EXCEPT !.validation_issues = Issues(s),
              !.needs_retry = NeedsRetry(s) /\ Len(Issues(s)) > 0,
              !.needs_clarification = NeedsClarification(s)]

----------------------------------------------------------------------------
(* Routing functions and the graph                                         *)

should_retrieve_context(s) ==
    IF s.is_summary THEN "generate"
    ELSE IF Truthy(s.error_message) THEN "generate"
    ELSE "retrieve"

\* should_continue_after_validation that retries an error at counter 2 too
should_continue_one_retry_more(s) ==
    IF Truthy(s.error_message)
    THEN (IF s.retry_count <= 2 THEN "retry" ELSE "end")
    ELSE IF s.needs_retry THEN "retry"
    ELSE IF s.needs_clarification THEN "clarify"
    ELSE "end"

should_continue_after_validation(s) ==
    IF Truthy(s.error_message)
    THEN (IF s.retry_count < 2 THEN "retry" ELSE "end")
    ELSE IF s.needs_retry THEN "retry"
    ELSE IF s.needs_clarification THEN "clarify"
    ELSE "end"

\* increment_retry_on_retry that raises the counter by 2
increment_retry_on_retry_by_two(s) == [s EXCEPT !.retry_count = s.retry_count + 2]

increment_retry_on_retry(s) == [s EXCEPT !.retry_count = s.retry_count + 1]

\* create_discovery_workflow whose retry edge leads back to build_context
create_discovery_workflow_retry_rebuilds(node, s) ==
    CASE node = "classify_intent" -> "build_context"
      [] node = "build_context" ->
           (IF should_retrieve_context(s) = "retrieve" THEN "retrieve_context"
            ELSE "generate_response")
      [] node = "retrieve_context" -> "generate_response"
      [] node = "generate_response" -> "validate_response"
      [] node = "validate_response" ->
           (IF should_continue_after_validation(s) = "retry" THEN "increment_retry"
            ELSE END)
      [] node = "increment_retry" -> "build_context"

\* create_discovery_workflow whose retry edge skips the generation
create_discovery_workflow_retry_skips_generation(node, s) ==
    CASE node = "classify_intent" -> "build_context"
      [] node = "build_context" ->
           (IF should_retrieve_context(s) = "retrieve" THEN "retrieve_context"
            ELSE "generate_response")
      [] node = "retrieve_context" -> "generate_response"
      [] node = "generate_response" -> "validate_response"
      [] node = "validate_response" ->
           (IF should_continue_after_validation(s) = "retry" THEN "increment_retry"
            ELSE END)
      [] node = "increment_retry" -> "validate_response"

\* the edges of create_discovery_workflow: the node that follows `node`
\* when the node leaves the state s
create_discovery_workflow(node, s) ==
    CASE node = "classify_intent" -> "build_context"
      [] node = "build_context" ->
           (IF should_retrieve_context(s) = "retrieve" THEN "retrieve_context"
            ELSE "generate_response")
      [] node = "retrieve_context" -> "generate_response"
      [] node = "generate_response" -> "validate_response"
      [] node = "validate_response" ->
           (IF should_continue_after_validation(s) = "retry" THEN "increment_retry"
            ELSE END)
      [] node = "increment_retry" -> "generate_response"

----------------------------------------------------------------------------
(* The turn                                                                *)

\* a caller's chat history of n entries, alternately human and ai
History(n) ==
    [i \in 1..n |-> [type |-> IF i % 2 = 1 THEN "human" ELSE "ai", content |-> i]]

TurnMessages ==
    { <<"hello">>, <<"Draft", "epic">>, <<"create", "epic">>, <<"Review", "this">>,
      <<"outline", "it">>, <<"Summarize", "draft">>, <<"SUMMARY">> }

ActiveTexts == {None, "active text"}

InitWith(message, context_type, active_epic, active_feature, active_strategic_initiative, chat_history) ==
    /\ state = prepare_initial_state(message, context_type, active_epic, active_feature,
                                     active_strategic_initiative, chat_history)
    /\ pc = "classify_intent"
    /\ route = "none"
    /\ trace = <<>>
    /\ classifier_calls = 0
    /\ retriever_calls = 0
    /\ gen_calls = 0
    /\ gen_fails = 0
    /\ gen_input = NoInput
    /\ classifier_answer = Answer("none", Absent, "absent", 0)
    /\ retriever_answer = [ok |-> FALSE, docs |-> <<>>]
    /\ gen_answer = [ok |-> FALSE, content |-> <<>>, error |-> None]

Init ==
    \E m \in TurnMessages, c \in ContextTypes, e \in ActiveTexts, n \in 0..MaxHistory :
        InitWith(m, c, e, None, None, History(n))

\* what every node execution does to the graph's bookkeeping
Step(node) ==
    /\ pc = node
    /\ trace' = Append(trace, node)
    /\ pc' = create_discovery_workflow(node, state')

\* the node runs the heuristics and, when none matches, makes the
\* classification call; an exception that leaves the node leaves the graph
classify_intent ==
    /\ pc = "classify_intent"
    /\ trace' = Append(trace, "classify_intent")
    /\ IF HeuristicIntent(state.user_message) # None
       THEN /\ state' = classify_intent_node(state, classifier_answer)
            /\ pc' = create_discovery_workflow("classify_intent", state')
            /\ UNCHANGED <<classifier_calls, classifier_answer>>
       ELSE \E a \in ClassifierAnswers :
              /\ classifier_calls' = classifier_calls + 1
              /\ classifier_answer' = a
              /\ IF ClassifyRaises(state, a)
                 THEN state' = state /\ pc' = RAISED
                 ELSE /\ state' = classify_intent_node(state, a)
                      /\ pc' = create_discovery_workflow("classify_intent", state')
    /\ UNCHANGED <<route, retriever_calls, gen_calls, gen_fails, gen_input,
                   retriever_answer, gen_answer>>

build_context ==
    /\ state' = build_context_node(state)
    /\ Step("build_context")
    /\ UNCHANGED <<route, classifier_calls, retriever_calls, gen_calls, gen_fails,
                   gen_input, classifier_answer, retriever_answer, gen_answer>>

retrieve_context ==
    /\ IF RetrieverInvoked(state)
       THEN \E r \in RetrieverAnswers :
              /\ state' = retrieve_context_node(state, r)
              /\ retriever_answer' = r
              /\ retriever_calls' = retriever_calls + 1
       ELSE /\ state' = retrieve_context_node(state, retriever_answer)
            /\ UNCHANGED <<retriever_calls, retriever_answer>>
    /\ Step("retrieve_context")
    /\ UNCHANGED <<route, classifier_calls, gen_calls, gen_fails, gen_input,
                   classifier_answer, gen_answer>>

\* generate_response with the Generator answering one of `answers`
GenerateWith(answers) ==
    /\ \E g \in answers :
         /\ state' = generate_response_node(state, g)
         /\ gen_answer' = g
         /\ gen_fails' = IF g.ok THEN gen_fails ELSE gen_fails + 1
    /\ Step("generate_response")
    /\ gen_calls' = gen_calls + 1
    /\ gen_input' = GeneratorInput(state)
    /\ UNCHANGED <<route, classifier_calls, retriever_calls, classifier_answer,
                   retriever_answer>>

generate_response == GenerateWith(GeneratorAnswers)

validate_response ==
    /\ state' = validate_response_node(state)
    /\ Step("validate_response")
    /\ route' = should_continue_after_validation(state')
    /\ UNCHANGED <<classifier_calls, retriever_calls, gen_calls, gen_fails, gen_input,
                   classifier_answer, retriever_answer, gen_answer>>

increment_retry ==
    /\ state' = increment_retry_on_retry(state)
    /\ Step("increment_retry")
    /\ UNCHANGED <<route, classifier_calls, retriever_calls, gen_calls, gen_fails,
                   gen_input, classifier_answer, retriever_answer, gen_answer>>

Next ==
    \/ classify_intent
    \/ build_context
    \/ retrieve_context
    \/ generate_response
    \/ validate_response
    \/ increment_retry

Spec == Init /\ [][Next]_vars

----------------------------------------------------------------------------
(* A turn over the messages of the lexical classification                  *)

\* the words of the four keyword groups, in the order the heuristics test
\* them: spellings that lower() folds and words that hold a keyword inside
GroupWords ==
    << {"Draft", "create", "help me write", "drafting"},
       {"evaluate", "Review", "feedback"},
       {"outline", "structure", "restructure"},
       {"SUMMARY", "Summarize", "summary"} >>

\* one word of a group, or none
Pick(g) == {<<w>> : w \in GroupWords[g]} \cup {<<>>}

\* "please", then at most one word of each group, the groups in the reverse
\* of the order the heuristics test them
ClassifyMessages ==
    { <<"please">> \o w4 \o w3 \o w2 \o w1 :
        w1 \in Pick(1), w2 \in Pick(2), w3 \in Pick(3), w4 \in Pick(4) }

InitClassify ==
    \E m \in ClassifyMessages : InitWith(m, "epic", None, None, None, History(MaxHistory))

SpecClassify == InitClassify /\ [][Next]_vars

----------------------------------------------------------------------------
(* A turn over the active artifacts                                        *)

\* an active artifact is absent (None), empty, or a text of its own
ActiveInitiatives == {None, "", "initiative text"}
ActiveEpics == {None, "", "epic text"}
ActiveFeatures == {None, "", "feature text"}

ContextMessages == { <<"Summarize", "it">>, <<"Review", "this">> }

InitContext ==
    \E m \in ContextMessages, c \in ContextTypes, e \in ActiveEpics, f \in ActiveFeatures,
       i \in ActiveInitiatives :
        InitWith(m, c, e, f, i, History(MaxHistory))

SpecContext == InitContext /\ [][Next]_vars

----------------------------------------------------------------------------
(* A turn over long histories                                              *)

\* a caller's chat history whose first entry is a dict of another type,
\* which the conversion drops
HistoryWithSystem(n) ==
    [i \in 1..n |-> IF i = 1 THEN [type |-> "system", content |-> i] ELSE History(n)[i]]

HistoryMessages ==
    { <<"create", "epic">>, <<"Draft", "epic">>, <<"Review", "this">>,
      <<"Summarize", "draft">> }

InitHistory ==
    \E m \in HistoryMessages, n \in 0..LongHistory :
        \E h \in {History(n), HistoryWithSystem(n)} :
            InitWith(m, "epic", None, None, None, h)

SpecHistory == InitHistory /\ [][Next]_vars

----------------------------------------------------------------------------
(* A turn over the responses the validator tells apart                     *)

RECURSIVE Keep(_, _, _)
\* the markers of `required` at the positions of `keep` from i on, as
\* segments, in order
Keep(required, keep, i) ==
    IF i > Len(required) THEN <<>>
    ELSE (IF i \in keep THEN <<Seg(required[i])>> ELSE <<>>) \o Keep(required, keep, i + 1)

\* responses at the length limits, responses that hold any part of the
\* required sections of a focus type, and responses with an ellipsis or a
\* placeholder inside and outside the final 100 characters
ValidatorResponses ==
    { <<Prose(49)>>, <<Prose(50)>>, <<Prose(5000)>>, <<Prose(5001)>> }
    \cup { Keep(RequiredSections(c), keep, 1) \o <<Prose(200)>> :
             c \in ContextTypes, keep \in SUBSET (1..3) }
    \cup { <<Prose(200), Seg("..."), Prose(97)>>, <<Prose(200), Seg("..."), Prose(98)>>,
           <<Prose(200), Seg("[To be filled]"), Prose(86)>>,
           <<Prose(200), Seg("[To be filled]"), Prose(87)>>,
           <<Prose(10), Seg("...")>> }

ValidatorAnswers ==
    { [ok |-> TRUE, content |-> r, error |-> None] : r \in ValidatorResponses }
    \cup { [ok |-> FALSE, content |-> <<>>, error |-> e] : e \in GeneratorErrors }

ValidatorMessages == { <<"create", "epic">>, <<"Draft", "epic">>, <<"Review", "this">> }

InitValidate ==
    \E m \in ValidatorMessages, c \in ContextTypes :
        InitWith(m, c, None, None, None, History(MaxHistory))

generate_any_response == GenerateWith(ValidatorAnswers)

NextValidate ==
    \/ classify_intent
    \/ build_context
    \/ retrieve_context
    \/ generate_any_response
    \/ validate_response
    \/ increment_retry

SpecValidate == InitValidate /\ [][NextValidate]_vars

----------------------------------------------------------------------------
(* A turn whose external calls may never be answered                       *)

\* a node waits in an external call that has no deadline and is never answered
STALLED == "__stalled__"

\* app_retriever.invoke(query) is issued without a timeout
RetrieverHasDeadline == FALSE

\* the Retriever never answers: with a deadline the call fails when it
\* expires, without one the node never returns
retrieve_never_answered ==
    /\ pc = "retrieve_context"
    /\ RetrieverInvoked(state)
    /\ trace' = Append(trace, "retrieve_context")
    /\ retriever_calls' = retriever_calls + 1
    /\ retriever_answer' = [ok |-> FALSE, docs |-> <<>>]
    /\ IF RetrieverHasDeadline
       THEN /\ state' = retrieve_context_node(state, retriever_answer')
            /\ pc' = create_discovery_workflow("retrieve_context", state')
       ELSE state' = state /\ pc' = STALLED
    /\ UNCHANGED <<route, classifier_calls, gen_calls, gen_fails, gen_input,
                   classifier_answer, gen_answer>>

\* the Generator never answers: the client was built with timeout
\* llm_timeout, so the call fails when the deadline expires
generate_never_answered ==
    /\ LlmTimeout(state) > 0
    /\ GenerateWith({[ok |-> FALSE, content |-> <<>>, error |-> "Request timed out."]})

NextStall ==
    \/ Next
    \/ retrieve_never_answered
    \/ generate_never_answered

SpecStall == InitContext /\ [][NextStall]_vars

----------------------------------------------------------------------------
(* Properties                                                              *)

Nodes ==
    { "classify_intent", "build_context", "retrieve_context", "generate_response",
      "validate_response", "increment_retry" }

\* the node executed last
LastNode == IF trace = <<>> THEN "none" ELSE trace[Len(trace)]

\* the graph has stopped: at END, or with the exception that left a node
Stopped == pc \notin Nodes

SummaryFlagged(message) == Contains(message, "summary") \/ Contains(message, "summarize")

\* C1: in every reachable state of a turn the retry counter is an integer
\* between 0 and 2, so the count returned to the caller never exceeds 2.
C1_RetryCountBounded == state.retry_count \in 0..2

C1_Witness == pc = END /\ state.retry_count = 2 /\ gen_calls = 3

\* C2: every turn stops in a terminal disposition (end or clarify) after at
\* most 3 executions of generate_response, and the routing after
\* validate_response is never retry once the retry counter equals 2.
C2_TerminatesWithinThreeAttempts ==
    /\ gen_calls <= 3
    /\ Stopped => pc = END /\ route \in {"end", "clarify"}
    /\ LastNode = "validate_response" /\ state.retry_count = 2 => route # "retry"

\* the part of C2 that the code keeps: at most 3 generation attempts, no
\* retry routing at counter 2, and a turn that reaches END has a disposition
C2_AttemptsBounded ==
    /\ gen_calls <= 3
    /\ pc = END => route \in {"end", "clarify"}
    /\ LastNode = "validate_response" /\ state.retry_count = 2 => route # "retry"

\* C3: on a summary-flagged turn the Retriever is never invoked and the
\* history handed to the Generator is empty on every generation attempt.
C3_SummarySkipsRetrievalAndHistory ==
    SummaryFlagged(state.user_message) =>
        /\ retriever_calls = 0
        /\ "retrieve_context" \notin {trace[i] : i \in 1..Len(trace)}
        /\ gen_input.chat_history = <<>>

C3_Witness ==
    /\ SummaryFlagged(state.user_message)
    /\ state.messages # <<>>
    /\ gen_calls = 3
    /\ pc = END

\* C4: if every generation attempt of a turn fails, the turn makes exactly 3
\* attempts and ends with the error disposition: routing result end, the
\* last failure's description recorded, retry_count 2.
C4_AllAttemptsFailEndsInError ==
    pc = END /\ gen_calls >= 1 /\ gen_fails = gen_calls =>
        /\ gen_calls = 3
        /\ state.retry_count = 2
        /\ route = "end"
        /\ state.error_message # None
        /\ state.error_message = gen_answer.error

\* C5: a terminal state holds an error only when the retry counter is 2 and
\* the most recent generation attempt failed; a turn whose last attempt
\* succeeded (after failed attempts, a failed classification or a failed
\* retrieval) ends with no error.
C5_ErrorOnlyAfterRetriesExhausted ==
    Stopped =>
        /\ state.error_message # None =>
              state.retry_count = 2 /\ gen_calls = 3 /\ ~gen_answer.ok
        /\ gen_calls = 0 \/ gen_answer.ok => state.error_message = None

C5_Witness ==
    /\ pc = END
    /\ Truthy(state.error_message)
    /\ state.retry_count = 2
    /\ classifier_answer.kind = "error"
    /\ retriever_calls = 1 /\ ~retriever_answer.ok

\* a failed attempt followed by a successful one ends without error
C5_WitnessRecovered ==
    pc = END /\ gen_fails >= 1 /\ gen_answer.ok /\ state.error_message = None

\* C6 as claimed: a turn that ends with routing result end and no error
\* recorded returns an empty issue list.
C6_AcceptedHasNoIssues ==
    pc = END /\ route = "end" /\ state.error_message = None =>
        state.validation_issues = <<>>

\* C6 as amended: a turn that ends with routing result end and no error
\* recorded returns an empty issue list, unless the retries are exhausted
\* (retry counter 2) and the confidence is at least 0.7.
C6_AcceptedHasNoIssuesBeforeCeiling ==
    pc = END /\ route = "end" /\ ~Truthy(state.error_message) =>
        \/ state.validation_issues = <<>>
        \/ state.retry_count = 2 /\ state.confidence_score >= 70

C6_Witness ==
    /\ pc = END /\ route = "end" /\ state.error_message = None
    /\ state.validation_issues # <<>>
    /\ state.retry_count = 2

\* the classification answer is a structured answer naming an intent and a
\* confidence in [0,1]
Conforming(a) ==
    a.kind = "object" /\ a.intent # Absent /\ a.conf_kind = "num" /\ a.conf \in 0..100

\* C7: when no heuristic matches and the classification call fails or its
\* answer is no structured answer naming an intent and a confidence in
\* [0,1], classify_intent completes with intent question and confidence 0.5,
\* records no error, and the turn proceeds to build_context.
C7_ClassifierFailureDegrades ==
    LastNode = "classify_intent" /\ classifier_calls = 1 /\ ~Conforming(classifier_answer) =>
        /\ pc = "build_context"
        /\ state.intent = "question"
        /\ state.confidence_score = 50
        /\ state.error_message = None

\* the part of C7 that the code keeps: a classification call that raises,
\* or whose content is no JSON object, degrades to question / 0.5
C7_CallFailureDegrades ==
    /\ LastNode = "classify_intent"
    /\ classifier_calls = 1
    /\ classifier_answer.kind \in {"error", "text", "json"}
    => /\ pc = "build_context"
       /\ state.intent = "question"
       /\ state.confidence_score = 50
       /\ state.error_message = None

\* C8: on a non-summary turn whose Retriever call fails, retrieve_context
\* completes with the degraded-context marker as context text and zero
\* passages, records no error, and the turn proceeds to generate_response.
C8_RetrievalFailureDegrades ==
    /\ LastNode = "retrieve_context"
    /\ ~SummaryFlagged(state.user_message)
    /\ ~retriever_answer.ok
    => /\ retriever_calls = 1
       /\ state.context_text = <<"Retrieval failed - proceeding with active context only.">>
       /\ state.retrieved_docs = <<>>
       /\ state.error_message = None
       /\ pc = "generate_response"

C8_Witness ==
    /\ LastNode = "retrieve_context"
    /\ retriever_calls = 1
    /\ ~retriever_answer.ok
    /\ pc = "generate_response"

\* the keyword groups of which the message holds a keyword
GroupKeywords ==
    << {"draft", "create", "help me write"}, {"evaluate", "review", "feedback"},
       {"outline", "structure"}, {"summary", "summarize"} >>

GroupsPresent(message) ==
    { g \in 1..4 : \E kw \in GroupKeywords[g] : Contains(message, kw) }

GroupIntent == << "draft", "evaluate", "outline", "question" >>

\* C9: once classify_intent has run, a message that holds keywords of some
\* groups has the intent of the first of these groups in the order draft,
\* evaluate, outline, summary, with confidence 0.9 and no classification
\* call; a message that holds none has had exactly one classification call.
C9_FirstMatchWins ==
    trace # <<>> =>
        IF GroupsPresent(state.user_message) # {}
        THEN /\ \A g \in GroupsPresent(state.user_message) :
                  (\A h \in GroupsPresent(state.user_message) : g <= h)
                      => state.intent = GroupIntent[g]
             /\ state.confidence_score = 90
             /\ classifier_calls = 0
        ELSE classifier_calls = 1

C9_Witness ==
    /\ GroupsPresent(state.user_message) = {2, 3, 4}
    /\ state.intent = "evaluate"
    /\ "Review" \in {state.user_message[i] : i \in 1..Len(state.user_message)}
    /\ LastNode = "classify_intent"

\* C10: after classify_intent the classified intent is one of draft,
\* question, evaluate, outline and the confidence is a number in [0,1].
C10_IntentAndConfidenceInRange ==
    trace # <<>> /\ pc # RAISED =>
        /\ state.intent \in {"draft", "question", "evaluate", "outline"}
        /\ state.confidence_score \in 0..100

\* the pieces of a text
Pieces(text) == {text[i] : i \in 1..Len(text)}

\* the active artifact texts present on the state
ActivePresent(s) ==
    {t \in {s.active_strategic_initiative, s.active_epic, s.active_feature} : Truthy(t)}

\* C11: on a summary-flagged turn the retrieval query composed by
\* build_context holds none of the active strategic-initiative, epic or
\* feature texts, whichever of them are present: it is the user message,
\* behind the keyword phrase of the focus type if there is one.
C11_SummaryQueryOmitsActiveTexts ==
    SummaryFlagged(state.user_message) /\ Len(trace) >= 2 =>
        /\ Pieces(state.retrieval_query) \cap ActivePresent(state) = {}
        /\ \E prefix \in {<<>>, <<"Strategic Initiative ">>, <<"PI Objectives ">>} :
              state.retrieval_query = prefix \o state.user_message

C11_Witness ==
    /\ SummaryFlagged(state.user_message)
    /\ LastNode = "build_context"
    /\ Cardinality(ActivePresent(state)) = 3

\* C12: on a summary-flagged turn the context text that generate_response
\* hands to the Generator is the fixed degraded-context marker string, with
\* zero passages on the state: it is never empty or unset.
C12_SummaryContextIsMarker ==
    SummaryFlagged(state.user_message) /\ gen_calls >= 1 =>
        /\ gen_input.context \in
              { <<"Summary request - using active context only.">>,
                <<"Retrieval failed - proceeding with active context only.">> }
        /\ state.retrieved_docs = <<>>

\* the texts generate_response hands to the Generator besides the history
InputTexts(input) ==
    Pieces(input.system) \cup Pieces(input.context) \cup Pieces(input.user_input)

\* C13: on a summary-flagged turn every active initiative, epic or feature
\* text that is present is part of what generate_response hands to the
\* Generator (system instruction, context text, history or user text; the
\* history of a summary turn is empty).
C13_SummaryInputHoldsActiveTexts ==
    SummaryFlagged(state.user_message) /\ gen_calls >= 1 =>
        /\ gen_input.chat_history = <<>>
        /\ ActivePresent(state) \subseteq InputTexts(gen_input)

\* C14: the generation deadline is 240 on every attempt of a turn whose
\* classified intent is draft or that is a summary request, and 90 on every
\* other turn.
C14_DeadlineByIntent ==
    gen_calls >= 1 =>
        gen_input.timeout =
            IF state.intent = "draft" \/ SummaryFlagged(state.user_message) THEN 240 ELSE 90

\* the part of C14 that the code keeps: 240 for a message that holds the
\* word draft or is a summary request, 90 otherwise
C14_DeadlineByKeyword ==
    gen_calls >= 1 =>
        gen_input.timeout =
            IF Contains(state.user_message, "draft") \/ SummaryFlagged(state.user_message)
            THEN 240 ELSE 90

\* the last k elements of a sequence, in order, or all of it if it is shorter
LastK(seq, k) ==
    [i \in 1..(IF k < Len(seq) THEN k ELSE Len(seq)) |->
        seq[i + (IF k < Len(seq) THEN Len(seq) - k ELSE 0)]]

\* C15: the history handed to the Generator is the order-preserving suffix
\* of the prior-turn messages of length min(n, N), N being 0 for a summary
\* turn, 12 for a turn of intent draft that is no summary, 10 otherwise.
C15_HistoryByIntent ==
    gen_calls >= 1 =>
        gen_input.chat_history =
            LastK(state.messages,
                  IF SummaryFlagged(state.user_message) THEN 0
                  ELSE IF state.intent = "draft" THEN 12 ELSE 10)

\* the part of C15 that the code keeps: N is 12 for a message that holds
\* the word draft and is no summary
C15_HistoryByKeyword ==
    gen_calls >= 1 =>
        gen_input.chat_history =
            LastK(state.messages,
                  IF SummaryFlagged(state.user_message) THEN 0
                  ELSE IF Contains(state.user_message, "draft") THEN 12 ELSE 10)

\* the response validate_response has just judged has this issue
HasIssue(text) ==
    \E i \in 1..Len(state.validation_issues) : state.validation_issues[i] = <<text>>

\* C16: a response shorter than 50 characters yields the too-short issue; a
\* response longer than 5000 characters yields the too-long issue exactly
\* when the classified intent is not draft; lengths 50 to 5000 yield neither.
C16_LengthRuleByIntent ==
    LastNode = "validate_response" =>
        /\ HasIssue("Response too short") <=> CharLen(state.generated_response) < 50
        /\ HasIssue("Response very long - might be overly detailed")
              <=> (CharLen(state.generated_response) > 5000 /\ state.intent # "draft")

\* the part of C16 that the code keeps: the exemption from the too-long
\* issue is for a message that holds the word draft
C16_LengthRuleByKeyword ==
    LastNode = "validate_response" =>
        /\ HasIssue("Response too short") <=> CharLen(state.generated_response) < 50
        /\ HasIssue("Response very long - might be overly detailed")
              <=> (CharLen(state.generated_response) > 5000
                   /\ ~Contains(state.user_message, "draft"))

\* the required section markers of each artifact focus type
ClaimedSections ==
    [ c \in ContextTypes |->
        CASE c = "epic" -> {"EPIC NAME", "EPIC HYPOTHESIS STATEMENT", "BUSINESS CONTEXT"}
          [] c = "strategic-initiative" ->
               {"INITIATIVE NAME", "STRATEGIC CONTEXT", "CUSTOMER / USER SEGMENT"}
          [] c = "feature" -> {"FEATURE NAME", "USER STORY", "ACCEPTANCE CRITERIA"}
          [] c = "story" -> {"USER STORY", "ACCEPTANCE CRITERIA"}
          [] c = "pi-objective" -> {"OBJECTIVE", "KEY RESULTS"} ]

\* the required markers of the focus type that the response does not hold
Absentees ==
    { m \in ClaimedSections[state.context_type] :
        \A i \in 1..Len(state.generated_response) : state.generated_response[i].t # m }

\* the positions of the missing-sections entries of the issue list
MissingEntries ==
    { i \in 1..Len(state.validation_issues) :
        Head(state.validation_issues[i]) = "Missing sections: " }

\* C17: when the intent is draft and required section markers of the focus
\* type are absent from the response, the issue list holds one
\* missing-sections entry, which names exactly the absent markers; when all
\* are present, or the intent is not draft, it holds no such entry.
C17_TemplateRule ==
    LastNode = "validate_response" =>
        IF state.intent = "draft" /\ Absentees # {}
        THEN /\ Cardinality(MissingEntries) = 1
             /\ \A i \in MissingEntries :
                  Pieces(state.validation_issues[i]) \ {"Missing sections: ", ", "} = Absentees
        ELSE MissingEntries = {}

C17_Witness ==
    /\ LastNode = "validate_response"
    /\ state.intent = "draft"
    /\ ~state.is_draft
    /\ state.context_type = "epic"
    /\ Absentees = {"EPIC NAME", "EPIC HYPOTHESIS STATEMENT"}
    /\ \E i \in MissingEntries :
          state.validation_issues[i] =
              <<"Missing sections: ", "EPIC NAME", ", ", "EPIC HYPOTHESIS STATEMENT">>

\* `text` occurs within the final 100 characters of the response
InFinal100(text) ==
    \E i \in 1..Len(state.generated_response) :
        /\ state.generated_response[i].t = text
        /\ CharLen(SubSeq(state.generated_response, i, Len(state.generated_response))) <= 100

\* C18: the issue 'response appears incomplete' is produced if and only if
\* the final 100 characters of the response hold an ellipsis or the
\* placeholder marker.
C18_TruncationRule ==
    LastNode = "validate_response" =>
        (HasIssue("Response appears incomplete")
            <=> (InFinal100("...") \/ InFinal100("[To be filled]")))

\* the part of C18 that the code keeps: an ellipsis counts within the final
\* 100 characters, the placeholder anywhere in the response
C18_TruncationRuleAsCoded ==
    LastNode = "validate_response" =>
        (HasIssue("Response appears incomplete")
            <=> \/ InFinal100("...")
                \/ \E i \in 1..Len(state.generated_response) :
                      state.generated_response[i].t = "[To be filled]")

\* C19: the retrieval call and every generation call are issued under a
\* deadline whose expiry is a failure of the call, so that no turn waits
\* forever for a Retriever or Generator that never answers.
C19_NoCallStallsTheTurn ==
    /\ gen_calls >= 1 => gen_input.timeout > 0
    /\ pc # STALLED

\* the part of C19 that the code keeps: a generation call that is never
\* answered fails at its deadline and the turn goes on to validate_response
C19_GenerationHasDeadline ==
    /\ gen_calls >= 1 => gen_input.timeout \in {90, 240}
    /\ LastNode = "generate_response" => pc = "validate_response"

\* C20: build_context changes no field of the state other than the
\* retrieval query and makes no external call, and building the context
\* again from the state it leaves yields the same query.
C20_BuildContextIdempotent ==
    [][pc = "build_context" =>
          /\ state' = [state EXCEPT !.retrieval_query = state'.retrieval_query]
          /\ build_context_node(state') = state'
          /\ UNCHANGED <<classifier_calls, retriever_calls, gen_calls>>]_vars

C20_Witness ==
    /\ LastNode = "build_context"
    /\ ~SummaryFlagged(state.user_message)
    /\ Cardinality(ActivePresent(state)) = 3
    /\ state.context_type = "pi-objective"
    /\ Len(state.retrieval_query) = 13

\* C21: the retry counter starts at 0; the increment_retry transition raises
\* it by exactly 1, and classify_intent, build_context, retrieve_context,
\* generate_response and validate_response leave it as it was.
C21_RetryCounterFrame ==
    /\ state.retry_count = 0
    /\ [][state'.retry_count =
             IF pc = "increment_retry" THEN state.retry_count + 1 ELSE state.retry_count]_vars

C21_Witness ==
    /\ LastNode = "increment_retry"
    /\ state.retry_count = 2
    /\ gen_calls = 2
    /\ pc = "generate_response"

\* C22: after validate_response, a turn with an error recorded goes to
\* increment_retry when the retry counter is below 2 and ends with routing
\* result end when it is 2 or more, whatever the issue list and the
\* confidence: it never ends in clarify.
C22_ErrorTakesPriority ==
    LastNode = "validate_response" /\ state.error_message # None =>
        IF state.retry_count < 2
        THEN pc = "increment_retry" /\ route = "retry"
        ELSE pc = END /\ route = "end"

\* the part of C22 that the code keeps: an error whose description is not
\* empty takes priority
C22_DescribedErrorTakesPriority ==
    LastNode = "validate_response" /\ Truthy(state.error_message) =>
        IF state.retry_count < 2
        THEN pc = "increment_retry" /\ route = "retry"
        ELSE pc = END /\ route = "end"

\* C23: after validate_response with no error recorded, issues and a retry
\* counter below 2 lead to increment_retry; otherwise issues and a
\* confidence below 0.7 lead to terminal clarify; otherwise the turn ends
\* with routing result end.  increment_retry is followed by
\* generate_response with the counter raised by 1.
C23_RoutingWithoutError ==
    /\ [](LastNode = "validate_response" /\ state.error_message = None =>
            IF state.validation_issues # <<>> /\ state.retry_count < 2
            THEN pc = "increment_retry" /\ route = "retry"
            ELSE IF state.validation_issues # <<>> /\ state.confidence_score < 70
            THEN pc = END /\ route = "clarify"
            ELSE pc = END /\ route = "end")
    /\ [][pc = "increment_retry" =>
             /\ pc' = "generate_response"
             /\ state'.retry_count = state.retry_count + 1]_vars

\* the 30-character response at counter 0 has looped with counter 1
C23_Witness ==
    /\ LastNode = "increment_retry"
    /\ pc = "generate_response"
    /\ state.generated_response = <<Prose(30)>>
    /\ state.validation_issues = << <<"Response too short">> >>
    /\ state.error_message = None
    /\ state.retry_count = 1

\* C24: after every execution of validate_response, needs_retry is (issue
\* count > 0 and retry counter < 2) and needs_clarification is (issue count
\* > 0 and confidence < 0.7), also when the generation attempt before it
\* failed and had marked needs-retry.
C24_AdvisoryFlags ==
    LastNode = "validate_response" =>
        /\ state.needs_retry
              = (Len(state.validation_issues) > 0 /\ state.retry_count < 2)
        /\ state.needs_clarification
              = (Len(state.validation_issues) > 0 /\ state.confidence_score < 70)

\* a failed third attempt had marked needs-retry; validation took it back
C24_Witness ==
    /\ LastNode = "validate_response"
    /\ ~gen_answer.ok
    /\ state.retry_count = 2
    /\ state.validation_issues # <<>>
    /\ ~state.needs_retry

\* an active text that is present, under its bracketed label
Labelled(label, text) == IF Truthy(text) THEN <<label, text, "\n">> ELSE <<>>

\* the present active texts in the order initiative, epic, feature
LabelledActive(s) ==
    Labelled("[ACTIVE STRATEGIC INITIATIVE]\n", s.active_strategic_initiative)
    \o Labelled("[ACTIVE EPIC]\n", s.active_epic)
    \o Labelled("[ACTIVE FEATURE]\n", s.active_feature)

\* the keyword phrase of the focus types that have one
KeywordPhrase(context_type) ==
    IF context_type = "strategic-initiative" THEN <<"Strategic Initiative ">>
    ELSE IF context_type = "pi-objective" THEN <<"PI Objectives ">>
    ELSE <<>>

\* C25 as claimed: on every non-summary turn the composed query is the
\* keyword phrase of the focus type (strategic-initiative and pi-objective
\* only), the present active texts in the order initiative, epic, feature,
\* each under its label, and the user message under the 'USER QUESTION'
\* label, also when no active text is present.
C25_ComposedQuery ==
    ~SummaryFlagged(state.user_message) /\ Len(trace) >= 2 =>
        state.retrieval_query =
            KeywordPhrase(state.context_type) \o LabelledActive(state)
            \o <<"\n[USER QUESTION]\n">> \o state.user_message

\* C25 as amended: the same, except that the 'USER QUESTION' label is there
\* only when at least one active text is present; when none is present
\* (absent or empty) the query is the user message alone behind the keyword
\* phrase, with no label.
C25_ComposedQueryLabelAfterActiveTexts ==
    ~SummaryFlagged(state.user_message) /\ Len(trace) >= 2 =>
        state.retrieval_query =
            KeywordPhrase(state.context_type) \o LabelledActive(state)
            \o (IF ActivePresent(state) # {} THEN <<"\n[USER QUESTION]\n">> ELSE <<>>)
            \o state.user_message

\* no active text is present and the query carries no label
C25_Witness ==
    /\ LastNode = "build_context"
    /\ ~SummaryFlagged(state.user_message)
    /\ ActivePresent(state) = {}
    /\ state.active_epic = ""
    /\ state.context_type = "strategic-initiative"
    /\ state.retrieval_query = <<"Strategic Initiative ">> \o state.user_message

\* C26: the stages of a turn run in the order of the state machine:
\* classify_intent first and once, build_context second and once,
\* retrieve_context third and once on a non-summary turn and never on a
\* summary turn, then generate_response; every generate_response is
\* followed at once by validate_response, every increment_retry by
\* generate_response, and none of the first three stages runs again.
C26_StageOrder ==
    /\ Len(trace) >= 1 => trace[1] = "classify_intent"
    /\ Len(trace) >= 2 => trace[2] = "build_context"
    /\ Len(trace) >= 3 =>
          trace[3] = IF SummaryFlagged(state.user_message) THEN "generate_response"
                     ELSE "retrieve_context"
    /\ Len(trace) >= 4 /\ ~SummaryFlagged(state.user_message) => trace[4] = "generate_response"
    /\ \A i \in 1..Len(trace) :
          /\ trace[i] = "classify_intent" => i = 1
          /\ trace[i] = "build_context" => i = 2
          /\ trace[i] = "retrieve_context" => i = 3
          /\ trace[i] = "generate_response" =>
                IF i < Len(trace) THEN trace[i + 1] = "validate_response"
                ELSE pc = "validate_response"
          /\ trace[i] = "increment_retry" =>
                IF i < Len(trace) THEN trace[i + 1] = "generate_response"
                ELSE pc = "generate_response"
          /\ trace[i] = "validate_response" /\ i < Len(trace) => trace[i + 1] = "increment_retry"

C26_Witness ==
    /\ pc = END
    /\ trace = << "classify_intent", "build_context", "retrieve_context",
                  "generate_response", "validate_response", "increment_retry",
                  "generate_response", "validate_response", "increment_retry",
                  "generate_response", "validate_response" >>

\* C27: a generation attempt that fails is one Generator call; it sets the
\* error to the failure description and needs_retry to true and changes no
\* other field of the state, and the turn goes on to validate_response.
\* The response text changes only by a successful attempt, so that after a
\* failure it is the text of the last successful attempt, or empty if there
\* was none.
C27_FailedAttemptFrame ==
    /\ [][pc = "generate_response" /\ ~gen_answer'.ok =>
             /\ state' = [state EXCEPT !.error_message = gen_answer'.error,
                                        !.needs_retry = TRUE]
             /\ gen_calls' = gen_calls + 1
             /\ pc' = "validate_response"]_vars
    /\ [][state'.generated_response # state.generated_response =>
             /\ pc = "generate_response"
             /\ gen_answer'.ok
             /\ state'.generated_response = gen_answer'.content]_vars
    /\ [](gen_fails = gen_calls => state.generated_response = <<>>)

\* the second attempt failed; what is validated is the first attempt's text
C27_Witness ==
    /\ LastNode = "validate_response"
    /\ ~gen_answer.ok
    /\ gen_calls = 2 /\ gen_fails = 1
    /\ state.error_message = "Request timed out."
    /\ state.generated_response = <<Prose(30)>>
    /\ state.retry_count = 1

\* C28: in every terminal clarify state the retry counter is 2, exactly 3
\* generation attempts were made, no error is recorded, the issue list is
\* not empty and the confidence is below 0.7.
C28_ClarifyOnlyAfterRetries ==
    pc = END /\ route = "clarify" =>
        /\ state.retry_count = 2
        /\ gen_calls = 3
        /\ state.error_message = None
        /\ state.validation_issues # <<>>
        /\ state.confidence_score < 70

\* the part of C28 that the code keeps: the error recorded in a terminal
\* clarify state, if any, has the empty description
C28_ClarifyWithoutDescribedError ==
    pc = END /\ route = "clarify" =>
        /\ state.retry_count = 2
        /\ gen_calls = 3
        /\ ~Truthy(state.error_message)
        /\ state.validation_issues # <<>>
        /\ state.confidence_score < 70

\* C29: a turn whose message holds a keyword of the lexical heuristics has
\* confidence 0.9 once classified and never ends in clarify; a turn that
\* ends in clarify has made the classification call.
C29_HeuristicNeverClarifies ==
    /\ GroupsPresent(state.user_message) # {} =>
          /\ trace # <<>> => state.confidence_score = 90
          /\ ~state.needs_clarification
          /\ route # "clarify"
    /\ route = "clarify" =>
          /\ GroupsPresent(state.user_message) = {}
          /\ classifier_calls = 1

\* a heuristic turn whose response still has issues when the retries are
\* exhausted ends with routing result end
C29_Witness ==
    /\ pc = END
    /\ GroupsPresent(state.user_message) # {}
    /\ state.validation_issues # <<>>
    /\ state.error_message = None
    /\ state.retry_count = 2
    /\ route = "end"

\* C30: whenever validate_response is about to run or has just run, and
\* whenever the turn has ended, the number of generate_response executions
\* so far is the retry counter plus 1.
C30_AttemptsAreRetriesPlusOne ==
    pc = "validate_response" \/ LastNode = "validate_response" \/ pc = END =>
        gen_calls = state.retry_count + 1

C30_Witness ==
    /\ pc = END
    /\ route = "clarify"
    /\ gen_fails = 1
    /\ gen_calls = 3
    /\ state.retry_count = 2

====
